---- MODULE Spec2Model ----
(***************************************************************************)
(* JobFit AI: the resume-optimization pipeline (docs/07-ai-workflow-       *)
(* architecture.md) as a state machine.  One run of run_optimization:      *)
(* quota check, state construction, the LangGraph nodes jd_analysis ->     *)
(* resume_retrieval -> bullet_rewriting -> ats_scoring -> (retry |         *)
(* gap_analysis) -> result_aggregation -> END, then result mapping and     *)
(* usage recording.  Scores are in hundredths (0.75 is 75).                *)
(***************************************************************************)
EXTENDS Integers, Sequences, FiniteSets, TLC

VARIABLES
    pc,                 \* position of run_optimization / current graph node
    cfg,                \* configuration options of the run
    jd_len,             \* length of the job-description text
    state,              \* OptimizationState
    states_constructed, \* how many OptimizationState objects were built
    llm_calls,          \* cumulative model-invocation count (Model Invoker calls)
    runs,               \* node executions per agent
    elapsed_ms,         \* wall-clock time since the run started
    last,               \* what the most recent node execution did
    trace,              \* facts about the scores and failures seen so far
    quota_checks,       \* calls of check_quota
    admission,          \* what check_quota returned
    usage_records,      \* calls of record_usage
    outcome,            \* what the caller of run_optimization received
    cause,              \* the exception kind an AgentExecutionError wraps
    faults,             \* failed backend calls so far (bounded by MaxFaults)
    auth,               \* AuthProvider: user, token refs, localStorage, route
    client,             \* ApiClient: refreshPromise and the promises it names
    reqs,               \* the ApiClient.request calls in progress
    done,               \* the ApiClient.request call that has just settled
    page                \* LoginPage / RegisterPage: the form, its errors, the calls made

pipeline_vars == <<pc, cfg, jd_len, state, states_constructed, llm_calls, runs,
                   elapsed_ms, last, trace, quota_checks, admission, usage_records,
                   outcome, cause, faults>>

frontend_vars == <<auth, client, reqs, done>>

page_vars == <<page>>

vars == <<pipeline_vars, frontend_vars, page_vars>>

----------------------------------------------------------------------------
(* Bounds of the model *)

MaxAttemptsBound == 2
LooseMaxLlmCalls == 40
MaxFaults == 3

(* Program constants *)

ScoreThreshold == 75
DefaultMaxRewriteAttempts == 2
MinJdLength == 50
MaxTotalTokens == 7000
MaxPipelineLatencyMs == 55000
DefaultMaxLlmCalls == 6
DefaultScore == 50
MaxRetries == 2

(* Input domains *)

JdLengths == {10, 49, 50}
RawScores == {0 - 20, 40, 75, 130}
TokenChoices == {500, 7100}
LatencyChoices == {1000, 56000}
BackendOutcomes == {"ok", "invalid", "timeout", "crash"}

Categories == {"keywords", "skills", "experience", "formatting"}
\* the four category scores the backend returns along with an overall score
RawBreakdown(overall) ==
    IF overall \in 0..100
    THEN [keywords |-> 90, skills |-> 85, experience |-> 75, formatting |-> 80]
    ELSE [keywords |-> 0 - 10, skills |-> 120, experience |-> 100, formatting |-> 0]

Agents == {"jd_analyzer", "rag_retriever", "resume_rewriter", "ats_scorer", "gap_analyzer"}
LlmAgents == Agents \ {"rag_retriever"}

----------------------------------------------------------------------------
(* Pure helpers *)

RECURSIVE SumOver(_, _)
SumOver(f, S) ==
    IF S = {} THEN 0
    ELSE LET a == CHOOSE x \in S : TRUE IN f[a] + SumOver(f, S \ {a})

\* cumulative token count: the sum over token_usage
TokensSoFar(st) == SumOver(st.token_usage, Agents)

\* (mutant) parse_output stores the numbers as the backend returned them
Clamp_Unchecked(x) == x

\* parse_output: clamp to [0.0, 1.0]
Clamp(x) == IF x < 0 THEN 0 ELSE IF x > 100 THEN 100 ELSE x

ClampBreakdown(b) == [c \in Categories |-> Clamp(b[c])]

\* the scorer's fallback: every score defaults to 0.5
DefaultBreakdown == [c \in Categories |-> DefaultScore]

\* backend attempts of one Model Invoker call that ends with outcome o: the
\* ChatModel retries a transient failure up to max_retries times, and the
\* timeout outcome is the failure that outlasted them; any other outcome is
\* the backend's first answer
BackendAttempts(o) == IF o = "timeout" THEN 1 + MaxRetries ELSE 1

\* exception kind raised for a failed backend outcome
ErrorKind(o) ==
    CASE o = "invalid" -> "SchemaValidationError"
      [] o = "timeout" -> "TransientBackendError"
      [] OTHER         -> "UnexpectedError"

initial_state(c) ==
    [ rewrite_attempts     |-> 0,
      score_threshold      |-> ScoreThreshold,
      max_rewrite_attempts |-> c.max_rewrite_attempts,
      errors               |-> << >>,
      token_usage          |-> [a \in Agents |-> 0],
      total_tokens_used    |-> 0,
      jd_analysis          |-> "unset",
      relevant_chunks      |-> "unset",
      optimized_bullets    |-> "unset",
      ats_score            |-> 0,
      score_breakdown      |-> [k \in Categories |-> 0],
      gap_report           |-> "unset",
      final_result         |-> [ats_score |-> 0, rewrite_attempts |-> 0,
                                total_tokens_used |-> 0, errors |-> << >>] ]

\* (mutant) one more retry is granted when the counter has reached the maximum
score_check_router_Inclusive(ats_score, threshold, attempts, max_attempts) ==
    IF ats_score >= threshold THEN "proceed_to_gap"
    ELSE IF attempts <= max_attempts THEN "retry_rewrite"
    ELSE "proceed_to_gap"

score_check_router(ats_score, threshold, attempts, max_attempts) ==
    IF ats_score >= threshold THEN "proceed_to_gap"
    ELSE IF attempts < max_attempts THEN "retry_rewrite"
    ELSE "proceed_to_gap"

\* (mutant) the retry edge leads back to the retriever
RouteTarget_Restart(key) ==
    IF key = "retry_rewrite" THEN "resume_retrieval" ELSE "gap_analysis"

\* conditional edges of build_optimization_graph
RouteTarget(key) ==
    IF key = "retry_rewrite" THEN "bullet_rewriting" ELSE "gap_analysis"

\* edges of build_optimization_graph, and the hand-over to the caller at END
Successors(node) ==
    CASE node = "start"              -> {"jd_analysis"}
      [] node = "jd_analysis"        -> {"resume_retrieval"}
      [] node = "resume_retrieval"   -> {"bullet_rewriting"}
      [] node = "bullet_rewriting"   -> {"ats_scoring"}
      [] node = "ats_scoring"        -> {RouteTarget("retry_rewrite"), RouteTarget("proceed_to_gap")}
      [] node = "gap_analysis"       -> {"result_aggregation"}
      [] node = "result_aggregation" -> {"END"}
      [] node = "END"                -> {"done"}
      [] OTHER                       -> {}

\* (mutant) the counter is written back as it was read
NextRewriteAttempts_Stuck(n) == n

\* the rewriter writes rewrite_attempts (incremented) on every execution
NextRewriteAttempts(n) == n + 1

\* (mutant) the except clause re-raises the original exception
WrapException_Leaky(kind) == kind

\* BaseAgent.run: except Exception -> raise AgentExecutionError
WrapException(kind) == "AgentExecutionError"

\* budget guardrails (hard stops)
BudgetExceeded(tokens, elapsed, calls, c) ==
    \/ tokens > c.max_total_tokens
    \/ elapsed > c.max_pipeline_latency_ms
    \/ calls > c.max_llm_calls

\* does a failed first invocation get one more invocation?
RetriesOnce(agent, o) ==
    \/ o = "invalid"
    \/ o = "timeout" /\ agent \in {"ats_scorer", "rag_retriever"}

\* what an agent may do with a failure it cannot recover from
FailurePolicy(agent, o) ==
    CASE agent = "jd_analyzer" -> {"raise"}
      [] o = "crash" -> {"raise"}
      [] agent = "rag_retriever" -> {"fallback"}
      [] agent = "resume_rewriter" /\ o = "invalid" -> {"fallback", "raise"}
      [] agent = "resume_rewriter" -> {"raise"}
      [] OTHER -> {"fallback"}

\* one agent execution against backend outcomes o1 (first call) and o2 (re-prompt)
Invocations(agent, o1) == IF o1 # "ok" /\ RetriesOnce(agent, o1) THEN 2 ELSE 1
FinalOutcome(agent, o1, o2) == IF o1 # "ok" /\ RetriesOnce(agent, o1) THEN o2 ELSE o1

\* failed backend calls of one execution
FaultsOf(agent, o1, o2) ==
    (IF o1 # "ok" THEN 1 ELSE 0)
  + (IF Invocations(agent, o1) = 2 /\ o2 # "ok" THEN 1 ELSE 0)

\* model invocations of one execution (the retriever makes no LLM call)
LlmCallsOf(agent, o1) == IF agent \in LlmAgents THEN Invocations(agent, o1) ELSE 0

\* token count the execution reports: t when some call returned text
TokensOf(agent, o1, o2, t) ==
    IF agent \in LlmAgents /\ {o1, FinalOutcome(agent, o1, o2)} \cap {"ok", "invalid"} # {}
    THEN t ELSE 0

ErrorRecord(agent, kind) ==
    [agent_name |-> agent, error_type |-> kind, recoverable |-> TRUE]

BudgetRecord == ErrorRecord("pipeline", "BudgetExceeded")

\* a stage that stores its fallback value records a non-fatal error entry
FallbackErrors(agent, kind) == << ErrorRecord(agent, kind) >>

\* (mutant) a breach leaves no warning
BudgetErrors_Silent(breach) == << >>

\* a guardrail breach leaves a warning in errors ...
BudgetErrors(breach) == IF breach THEN << BudgetRecord >> ELSE << >>

\* (mutant) a breach is noted but the next stage runs all the same
GuardrailRoute_Ignored(breach, next) == next

\* ... and routes directly to result_aggregation
GuardrailRoute(breach, next) == IF breach THEN "result_aggregation" ELSE next

\* (mutant) the state is built before the quota check is looked at
ConstructsState_BeforeCheck(decision) == TRUE

\* step 2 (create session, build the initial state) follows an allowed quota check
ConstructsState(decision) == decision = "allow"

\* (mutant) the completed run is never reported
UsageAfterRun_Skipped(n) == n

\* the usage of a completed run is recorded once
UsageAfterRun(n) == n + 1

Execution(agent, n, o1, fin, status, breach, attempts) ==
    [agent |-> agent, n |-> n, o1 |-> o1, fin |-> fin, status |-> status,
     breach |-> breach, attempts |-> attempts]

NoExecution == Execution("none", 0, "none", "none", "none", FALSE, 0)

----------------------------------------------------------------------------
(* The frontend: AuthProvider (providers/AuthProvider.tsx) and the          *)
(* ApiClient it configures (lib/api/client.ts).  JavaScript runs each       *)
(* stretch of code between two awaits without interruption, so one action   *)
(* is one such stretch; the stretches of concurrent calls interleave freely. *)

\* JavaScript null, an absent JSON property, no Authorization header
Null == "<null>"
Absent == "<absent>"
NoHeader == << >>

\* if (value): null and the empty string are falsy
Truthy(v) == v # Null /\ v # ""

TOKEN_KEY == "jobfit_refresh_token"

\* TokenResponse bodies the server issues; NoTokens stands for a null TokenResponse
TokenResponses ==
    { [access_token |-> "a1", refresh_token |-> "r1"],
      [access_token |-> "a2", refresh_token |-> "r2"] }
NoTokens == [access_token |-> Null, refresh_token |-> Null]
\* the server rotates: the tokens it issues differ from the one presented
Issued(presented) == {t \in TokenResponses : t.refresh_token # presented}
AccessTokens == {t.access_token : t \in TokenResponses}
RefreshTokens == {t.refresh_token : t \in TokenResponses}

\* fetchUser's request and the requests of other components
Requests == {"me", "req1"}
AppRequests == Requests \ {"me"}

\* refreshPromise: null, or one of the promises tryRefresh has created
NoPromise == 0
PromiseIds == 1..Cardinality(Requests)

\* responses of the server; a status of 0 stands for a fetch that rejects
ErrorBodies ==
    { [json |-> FALSE, detail |-> Absent, message |-> Absent],
      [json |-> TRUE,  detail |-> Absent, message |-> Absent],
      [json |-> TRUE,  detail |-> Absent, message |-> "Bad request"],
      [json |-> TRUE,  detail |-> "Not found", message |-> "Bad request"] }
DataBody == [json |-> TRUE, detail |-> Absent, message |-> Absent]
Response(status, body) == [status |-> status, body |-> body]
NetworkError == Response(0, DataBody)
NoResponse == Response(0 - 1, DataBody)
Responses ==
    {Response(200, DataBody), Response(204, DataBody)}
      \cup {Response(404, b) : b \in ErrorBodies}
      \cup {Response(401, b) : b \in {b \in ErrorBodies : b.json = (b.detail # Absent)}}

\* Response.ok
Ok(status) == status \in 200..299

\* (mutant) the body's message is preferred to its detail
ErrorMessage_MessageFirst(body, status) ==
    IF body.json /\ body.message # Absent THEN body.message
    ELSE IF body.json /\ body.detail # Absent THEN body.detail
    ELSE "Request failed: " \o ToString(status)

\* errorBody?.detail ?? errorBody?.message ?? `Request failed: ${status}`,
\* where errorBody is null when the body is not JSON
ErrorMessage(body, status) ==
    IF body.json /\ body.detail # Absent THEN body.detail
    ELSE IF body.json /\ body.message # Absent THEN body.message
    ELSE "Request failed: " \o ToString(status)

ApiError(status, message) == [name |-> "ApiError", status |-> status, message |-> message]
TypeError == [name |-> "TypeError", status |-> 0, message |-> "fetch failed"]
NoError == [name |-> "none", status |-> 0, message |-> ""]

\* (mutant) a response of 401 is taken for a success
Outcome_AcceptsUnauthorized(resp) ==
    IF resp = NetworkError
    THEN [result |-> "rejected", value |-> "none", error |-> TypeError]
    ELSE IF ~Ok(resp.status) /\ resp.status # 401
    THEN [result |-> "rejected", value |-> "none",
          error |-> ApiError(resp.status, ErrorMessage(resp.body, resp.status))]
    ELSE IF resp.status = 204
    THEN [result |-> "resolved", value |-> "undefined", error |-> NoError]
    ELSE [result |-> "resolved", value |-> "data", error |-> NoError]

\* what request() does with its final response
Outcome(resp) ==
    IF resp = NetworkError
    THEN [result |-> "rejected", value |-> "none", error |-> TypeError]
    ELSE IF ~Ok(resp.status)
    THEN [result |-> "rejected", value |-> "none",
          error |-> ApiError(resp.status, ErrorMessage(resp.body, resp.status))]
    ELSE IF resp.status = 204
    THEN [result |-> "resolved", value |-> "undefined", error |-> NoError]
    ELSE [result |-> "resolved", value |-> "data", error |-> NoError]

\* (mutant) the header is never set
AuthorizationHeader_Missing(token) == NoHeader

\* if (token) headers.set('Authorization', `Bearer ${token}`)
AuthorizationHeader(token) == IF Truthy(token) THEN <<"Bearer", token>> ELSE NoHeader

\* (mutant) every 401 leads to tryRefresh
NeedsRefresh_AnyToken(status, refreshToken) == status = 401

\* request: response.status === 401 && this.config.getRefreshToken()
NeedsRefresh(status, refreshToken) == status = 401 /\ Truthy(refreshToken)

\* (mutant) every 401 starts a refresh of its own
TryRefreshJoins_Never(refreshPromise) == FALSE

\* tryRefresh: if (this.refreshPromise) return this.refreshPromise
TryRefreshJoins(refreshPromise) == refreshPromise # NoPromise

\* (mutant) a failed refresh is reported to nobody
RefreshCallback_Silent(ok) == IF ok THEN "onTokenRefreshed" ELSE "none"

\* executeRefresh: which callback of the config is called
RefreshCallback(ok) == IF ok THEN "onTokenRefreshed" ELSE "onAuthFailure"

\* (mutant) the request is never sent again
ShouldResend_Never(refreshed) == FALSE

\* request: if (refreshed) re-send
ShouldResend(refreshed) == refreshed # NoTokens

FreePromise ==
    [status |-> "free", presented |-> Null, value |-> NoTokens, posts |-> 0,
     notices |-> << >>]

\* the locals of one request() call, with what it has sent so far
IdleRequest ==
    [pc |-> "idle", token0 |-> Null, sent |-> << >>, first |-> NoResponse,
     promise |-> NoPromise, role |-> "none", joined_pending |-> FALSE,
     had_refresh_token |-> FALSE, refreshed |-> NoTokens, posts |-> 0,
     notices |-> << >>]

\* the call that has just settled, with how it settled
Settled(r, q, resp, out) ==
    [req |-> r, token0 |-> q.token0, sent |-> q.sent, first |-> q.first,
     final |-> resp, role |-> q.role, joined_pending |-> q.joined_pending,
     had_refresh_token |-> q.had_refresh_token, refreshed |-> q.refreshed,
     posts |-> q.posts, notices |-> q.notices,
     result |-> out.result, value |-> out.value, error |-> out.error]

NoDone == Settled("none", IdleRequest, NoResponse,
                  [result |-> "none", value |-> "none", error |-> NoError])

NoEvent == [kind |-> "none", was_authenticated |-> FALSE]

InitialAuth ==
    [user |-> Null, accessTokenRef |-> Null, refreshTokenRef |-> Null,
     localStorage |-> [k \in {TOKEN_KEY} |-> Null],
     isLoading |-> TRUE, route |-> "/", flow |-> "mount", event |-> NoEvent]

InitialClient ==
    [refreshPromise |-> NoPromise, promises |-> [p \in PromiseIds |-> FreePromise]]

\* isAuthenticated: !!user
IsAuthenticated(a) == a.user # Null

\* (mutant) the stored refresh token survives
clearAuth_KeepsStored(a) ==
    [a EXCEPT !.accessTokenRef = Null, !.refreshTokenRef = Null, !.user = Null]

clearAuth(a) ==
    [a EXCEPT !.accessTokenRef = Null, !.refreshTokenRef = Null,
              !.localStorage[TOKEN_KEY] = Null, !.user = Null]

handleLogout(a) == [clearAuth(a) EXCEPT !.route = "/login"]

applyTokens(a, tokens) ==
    [a EXCEPT !.accessTokenRef = tokens.access_token,
              !.refreshTokenRef = tokens.refresh_token,
              !.localStorage[TOKEN_KEY] = tokens.refresh_token]

\* an action that calls neither handleLogout nor onAuthFailure
Quiet(a) == [a EXCEPT !.event = NoEvent]

\* request(): read the access token, set the header, issue the first fetch
StartedRequest(a) ==
    [IdleRequest EXCEPT !.pc = "fetch1", !.token0 = a.accessTokenRef,
                        !.sent = << AuthorizationHeader(a.accessTokenRef) >>]

\* the promise tryRefresh creates next
NewPromise(cl) ==
    CHOOSE p \in PromiseIds :
        /\ cl.promises[p].status = "free"
        /\ \A q \in PromiseIds : q < p => cl.promises[q].status # "free"

\* a settled promise nobody holds any more is dropped
Released(promises, p, rq, refreshPromise) ==
    IF p # NoPromise /\ refreshPromise # p /\ \A r \in Requests : rq[r].promise # p
    THEN [promises EXCEPT ![p] = FreePromise]
    ELSE promises

\* fetchUser returned: login / register / session restore go on
AfterFetchUser(a, out) ==
    [a EXCEPT !.user = IF out.result = "resolved" /\ out.value = "data" THEN "user" ELSE Null,
              !.route = IF a.flow = "login_me" THEN "/optimize" ELSE @,
              !.isLoading = IF a.flow = "restore_me" THEN FALSE ELSE @,
              !.flow = "idle"]

\* request r, with locals q, ends with the response resp
Settle(r, q, resp, a, cl) ==
    LET out == Outcome(resp)
    IN  /\ reqs' = [reqs EXCEPT ![r] = IdleRequest]
        /\ client' = cl
        /\ done' = Settled(r, q, resp, out)
        /\ auth' = IF r = "me" THEN AfterFetchUser(a, out) ELSE a

\* the frontend before the provider is mounted
FrontendIdle ==
    /\ auth = InitialAuth
    /\ client = InitialClient
    /\ reqs = [r \in Requests |-> IdleRequest]
    /\ done = NoDone

----------------------------------------------------------------------------
(* The sign-in pages: LoginPage (app/(auth)/login/page.tsx) and            *)
(* RegisterPage (app/(auth)/register/page.tsx).  A string is a sequence of *)
(* characters.                                                              *)

MaxEmailLen == 5
MaxTenantNameLen == 3
MaxSubmits == 2

MinPasswordLength == 8
MinTenantNameLength == 2

Repeat(c, n) == [i \in 1..n |-> c]
StringsOver(alphabet, n) == UNION {[1..k -> alphabet] : k \in 0..n}

\* what the user may have typed into the fields
Emails == StringsOver({"a", "@", ".", " "}, MaxEmailLen)
FewEmails == { << >>, <<"a", "@", "b">>, <<"a", "@", "b", ".", "c">> }
Passwords ==
    { Repeat("p", n) : n \in {0, 5, MinPasswordLength - 1, MinPasswordLength} }
        \cup { Repeat(" ", MinPasswordLength), Repeat("q", MinPasswordLength + 1) }
TenantNames == StringsOver({"o", " "}, MaxTenantNameLen)

IsSpace(c) == c = " "

\* String.prototype.trim
RECURSIVE TrimStart(_)
TrimStart(s) == IF s # << >> /\ IsSpace(Head(s)) THEN TrimStart(Tail(s)) ELSE s
RECURSIVE TrimEnd(_)
TrimEnd(s) ==
    IF s # << >> /\ IsSpace(s[Len(s)]) THEN TrimEnd(SubSeq(s, 1, Len(s) - 1)) ELSE s
trim(s) == TrimEnd(TrimStart(s))

\* the character class [^\s@]
Plain(c) == ~IsSpace(c) /\ c # "@"

\* /^[^\s@]+@[^\s@]+\.[^\s@]+$/.test(s): an '@' at i and a '.' at j, something
\* before the '@', between the two and after the '.', every other character plain
EmailPattern(s) ==
    \E i, j \in 1..Len(s) :
        /\ s[i] = "@" /\ s[j] = "."
        /\ 1 < i /\ i + 1 < j /\ j < Len(s)
        /\ \A k \in 1..Len(s) : k # i => Plain(s[k])

EmailError(email) ==
    IF trim(email) = << >> THEN "Email is required"
    ELSE IF ~EmailPattern(email) THEN "Invalid email address"
    ELSE Absent

\* (mutant) any non-empty password will do
PasswordError_AnyLength(kind, password) ==
    IF password = << >> THEN "Password is required" ELSE Absent

PasswordError(kind, password) ==
    IF password = << >> THEN "Password is required"
    ELSE IF kind = "register" /\ Len(password) < MinPasswordLength
    THEN "Password must be at least 8 characters"
    ELSE Absent

ConfirmPasswordError(password, confirmPassword) ==
    IF password # confirmPassword THEN "Passwords do not match" ELSE Absent

TenantNameError(tenantName) ==
    IF trim(tenantName) = << >> THEN "Organization name is required"
    ELSE IF Len(trim(tenantName)) < MinTenantNameLength
    THEN "Organization name must be at least 2 characters"
    ELSE Absent

NoFieldErrors ==
    [email |-> Absent, password |-> Absent, confirmPassword |-> Absent,
     tenantName |-> Absent]

\* validate(): the object next; a field without an error is absent from it
FieldErrors(f) ==
    [email           |-> EmailError(f.email),
     password        |-> PasswordError(f.kind, f.password),
     confirmPassword |-> IF f.kind = "register"
                         THEN ConfirmPasswordError(f.password, f.confirmPassword)
                         ELSE Absent,
     tenantName      |-> IF f.kind = "register"
                         THEN TenantNameError(f.tenantName) ELSE Absent]

\* Object.keys(next).length === 0
validate(f) == FieldErrors(f) = NoFieldErrors

\* the call handleSubmit makes on the auth context
AuthCall(f) ==
    IF f.kind = "login"
    THEN <<"login", f.email, f.password>>
    ELSE <<"register", f.email, f.password, trim(f.tenantName)>>

Form(kind, email, password, confirmPassword, tenantName) ==
    [kind |-> kind, email |-> email, password |-> password,
     confirmPassword |-> confirmPassword, tenantName |-> tenantName]

\* a page as it is rendered first, with what the user has typed into it
NewPage(f) ==
    [form |-> f, errors |-> NoFieldErrors, apiError |-> "", isSubmitting |-> FALSE,
     submits |-> 0, calls |-> << >>]

PagesIdle == page = NewPage(Form("login", << >>, << >>, << >>, << >>))

----------------------------------------------------------------------------
\* the pipeline before a run, under the default configuration
PipelineIdle ==
    /\ pc = "start"
    /\ cfg = [max_rewrite_attempts |-> DefaultMaxRewriteAttempts,
              max_llm_calls |-> DefaultMaxLlmCalls,
              max_total_tokens |-> MaxTotalTokens,
              max_pipeline_latency_ms |-> MaxPipelineLatencyMs]
    /\ jd_len = MinJdLength
    /\ state = initial_state(cfg)
    /\ states_constructed = 0
    /\ llm_calls = 0
    /\ runs = [a \in Agents |-> 0]
    /\ elapsed_ms = 0
    /\ last = NoExecution
    /\ trace = [all_below |-> TRUE, clean |-> TRUE, first_pass |-> "none",
                fallbacks |-> 0, breaches |-> 0]
    /\ quota_checks = 0
    /\ admission = "none"
    /\ usage_records = 0
    /\ outcome = "none"
    /\ cause = "none"
    /\ faults = 0

Init ==
    /\ FrontendIdle
    /\ PagesIdle
    /\ pc = "start"
    /\ cfg \in [ max_rewrite_attempts    : 0..MaxAttemptsBound,
                 max_llm_calls           : {DefaultMaxLlmCalls, LooseMaxLlmCalls},
                 max_total_tokens        : {MaxTotalTokens},
                 max_pipeline_latency_ms : {MaxPipelineLatencyMs} ]
    /\ jd_len \in JdLengths
    /\ state = initial_state(cfg)
    /\ states_constructed = 0
    /\ llm_calls = 0
    /\ runs = [a \in Agents |-> 0]
    /\ elapsed_ms = 0
    /\ last = NoExecution
    /\ trace = [all_below |-> TRUE, clean |-> TRUE, first_pass |-> "none",
                fallbacks |-> 0, breaches |-> 0]
    /\ quota_checks = 0
    /\ admission = "none"
    /\ usage_records = 0
    /\ outcome = "none"
    /\ cause = "none"
    /\ faults = 0

----------------------------------------------------------------------------
(* One node execution: agent.run(state), the merge of its partial update,   *)
(* the budget check after the stage, and the routing to the next node.      *)
(* merged_ok / merged_fb are the state with the agent's parsed output or    *)
(* its fallback value written; next_ok / next_fb the node that follows.     *)

ExecuteNode(agent, o1, o2, t, dt, status, merged_ok, merged_fb, next_ok, next_fb, scored) ==
    LET n      == Invocations(agent, o1)
        fin    == FinalOutcome(agent, o1, o2)
        att    == IF agent \in LlmAgents THEN BackendAttempts(fin) ELSE 0
        toks   == TokensOf(agent, o1, o2, t)
        merged == IF status = "ok" THEN merged_ok ELSE merged_fb
        st1    == [merged EXCEPT
                      !.token_usage[agent] = @ + toks,
                      !.errors = IF status = "fallback"
                                 THEN @ \o FallbackErrors(agent, ErrorKind(fin))
                                 ELSE @]
        calls1 == llm_calls + LlmCallsOf(agent, o1)
        el1    == elapsed_ms + dt
        breach == BudgetExceeded(TokensSoFar(st1), el1, calls1, cfg)
    IN  /\ status \in (IF fin = "ok" THEN {"ok"} ELSE FailurePolicy(agent, fin))
        /\ faults + FaultsOf(agent, o1, o2) <= MaxFaults
        /\ faults' = faults + FaultsOf(agent, o1, o2)
        /\ llm_calls' = calls1
        /\ runs' = [runs EXCEPT ![agent] = @ + 1]
        /\ elapsed_ms' = el1
        /\ IF status = "raise"
           THEN /\ state' = state
                /\ pc' = "done"
                /\ outcome' = WrapException(ErrorKind(fin))
                /\ cause' = ErrorKind(fin)
                /\ last' = Execution(agent, n, o1, fin, status, FALSE, att)
                /\ trace' = [trace EXCEPT !.clean = FALSE]
           ELSE /\ state' = [st1 EXCEPT !.errors = @ \o BudgetErrors(breach)]
                /\ pc' = GuardrailRoute(breach, IF status = "ok" THEN next_ok ELSE next_fb)
                /\ UNCHANGED <<outcome, cause>>
                /\ last' = Execution(agent, n, o1, fin, status, breach, att)
                /\ trace' = [trace EXCEPT
                      !.clean = @ /\ o1 = "ok" /\ ~breach,
                      !.all_below = @ /\ (scored < 0 \/ scored < state.score_threshold),
                      !.first_pass = IF @ # "none" \/ scored < 0 THEN @
                                     ELSE IF scored >= state.score_threshold
                                          THEN "pass" ELSE "fail",
                      !.fallbacks = IF status = "fallback" THEN @ + 1 ELSE @,
                      !.breaches = IF breach THEN @ + 1 ELSE @]
        /\ UNCHANGED <<cfg, jd_len, states_constructed, quota_checks, admission,
                       usage_records, frontend_vars, page_vars>>

----------------------------------------------------------------------------
(* Actions *)

\* run_optimization steps 1 and 2: the quota check, then the initial state
CheckQuota ==
    /\ pc = "start"
    /\ \E decision \in {"allow", "deny"} :
          /\ quota_checks' = quota_checks + 1
          /\ admission' = decision
          /\ IF ConstructsState(decision)
             THEN /\ state' = initial_state(cfg)
                  /\ states_constructed' = states_constructed + 1
             ELSE UNCHANGED <<state, states_constructed>>
          /\ IF decision = "deny"
             THEN /\ outcome' = "QuotaExceededError"
                  /\ pc' = "done"
             ELSE /\ pc' = "jd_analysis"
                  /\ UNCHANGED outcome
    /\ UNCHANGED <<cfg, jd_len, llm_calls, runs, elapsed_ms, last, trace,
                   usage_records, cause, faults, frontend_vars, page_vars>>

\* jd_analyzer_node: prepare() rejects a short JD before any LLM call
JdAnalyzerNode ==
    /\ pc = "jd_analysis"
    /\ IF jd_len < MinJdLength
       THEN /\ pc' = "done"
            /\ outcome' = WrapException("ValidationError")
            /\ cause' = "ValidationError"
            /\ runs' = [runs EXCEPT !["jd_analyzer"] = @ + 1]
            /\ last' = Execution("jd_analyzer", 0, "none", "none", "raise", FALSE, 0)
            /\ trace' = [trace EXCEPT !.clean = FALSE]
            /\ UNCHANGED <<cfg, jd_len, state, states_constructed, llm_calls,
                           elapsed_ms, quota_checks, admission, usage_records, faults,
                           frontend_vars, page_vars>>
       ELSE \E o1, o2 \in BackendOutcomes,
               t \in TokenChoices, dt \in LatencyChoices,
               status \in {"ok", "fallback", "raise"} :
               ExecuteNode("jd_analyzer", o1, o2, t, dt, status,
                           [state EXCEPT !.jd_analysis = "parsed"], state,
                           "resume_retrieval", "resume_retrieval", 0 - 1)

\* rag_retriever_node: vector search, no LLM call
RagRetrieverNode ==
    /\ pc = "resume_retrieval"
    /\ \E o1, o2 \in BackendOutcomes, dt \in LatencyChoices,
          status \in {"ok", "fallback", "raise"} :
          ExecuteNode("rag_retriever", o1, o2, 0, dt, status,
                      [state EXCEPT !.relevant_chunks = "ranked"],
                      [state EXCEPT !.relevant_chunks = "empty"],
                      "bullet_rewriting", "bullet_rewriting", 0 - 1)

\* resume_rewriter_node: writes optimized_bullets and rewrite_attempts (incremented)
ResumeRewriterNode ==
    /\ pc = "bullet_rewriting"
    /\ \E o1, o2 \in BackendOutcomes,
          t \in TokenChoices, dt \in LatencyChoices,
          status \in {"ok", "fallback", "raise"} :
          ExecuteNode("resume_rewriter", o1, o2, t, dt, status,
                      [state EXCEPT !.optimized_bullets = "rewritten",
                                    !.rewrite_attempts = NextRewriteAttempts(@)],
                      [state EXCEPT !.optimized_bullets = "wrapped_raw",
                                    !.rewrite_attempts = NextRewriteAttempts(@)],
                      "ats_scoring", "ats_scoring", 0 - 1)

\* ats_scorer_node followed by the conditional edge score_check_router
AtsScorerNode ==
    /\ pc = "ats_scoring"
    /\ \E o1, o2 \in BackendOutcomes,
          t \in TokenChoices, dt \in LatencyChoices,
          status \in {"ok", "fallback", "raise"}, raw \in RawScores :
          LET stored == IF status = "ok" THEN Clamp(raw) ELSE DefaultScore
              next   == RouteTarget(score_check_router(stored, state.score_threshold,
                                        state.rewrite_attempts, state.max_rewrite_attempts))
          IN  ExecuteNode("ats_scorer", o1, o2, t, dt, status,
                          [state EXCEPT !.ats_score = Clamp(raw),
                                        !.score_breakdown = ClampBreakdown(RawBreakdown(raw))],
                          [state EXCEPT !.ats_score = DefaultScore,
                                        !.score_breakdown = DefaultBreakdown],
                          next, next, stored)

\* gap_analyzer_node
GapAnalyzerNode ==
    /\ pc = "gap_analysis"
    /\ \E o1, o2 \in BackendOutcomes,
          t \in TokenChoices, dt \in LatencyChoices,
          status \in {"ok", "fallback", "raise"} :
          ExecuteNode("gap_analyzer", o1, o2, t, dt, status,
                      [state EXCEPT !.gap_report = "report"],
                      [state EXCEPT !.gap_report = "empty"],
                      "result_aggregation", "result_aggregation", 0 - 1)

\* result_aggregator_node: pure data assembly
ResultAggregatorNode ==
    /\ pc = "result_aggregation"
    /\ state' = [state EXCEPT
          !.final_result = [ats_score         |-> state.ats_score,
                            rewrite_attempts  |-> state.rewrite_attempts,
                            total_tokens_used |-> state.total_tokens_used,
                            errors            |-> state.errors],
          !.total_tokens_used = TokensSoFar(state)]
    /\ pc' = "END"
    /\ UNCHANGED <<cfg, jd_len, states_constructed, llm_calls, runs, elapsed_ms,
                   last, trace, quota_checks, admission, usage_records, outcome, cause,
                   faults, frontend_vars, page_vars>>

\* run_optimization steps 4 and 5: build the Result, record the usage
Complete ==
    /\ pc = "END"
    /\ outcome' = "Result"
    /\ usage_records' = UsageAfterRun(usage_records)
    /\ pc' = "done"
    /\ UNCHANGED <<cfg, jd_len, state, states_constructed, llm_calls, runs,
                   elapsed_ms, last, trace, quota_checks, admission, cause, faults,
                   frontend_vars, page_vars>>

Next ==
    \/ CheckQuota
    \/ JdAnalyzerNode
    \/ RagRetrieverNode
    \/ ResumeRewriterNode
    \/ AtsScorerNode
    \/ GapAnalyzerNode
    \/ ResultAggregatorNode
    \/ Complete

Spec == Init /\ [][Next]_vars

FairSpec == Spec /\ WF_vars(Next)

TypeOK ==
    /\ pc \in {"start", "jd_analysis", "resume_retrieval", "bullet_rewriting",
               "ats_scoring", "gap_analysis", "result_aggregation", "END", "done"}
    /\ state.rewrite_attempts \in Nat
    /\ state.ats_score \in 0..100

----------------------------------------------------------------------------
(* Frontend actions *)

\* the session-restore effect, up to its first await
Mount ==
    /\ auth.flow = "mount"
    /\ LET stored == auth.localStorage[TOKEN_KEY]
       IN  auth' = IF ~Truthy(stored)
                   THEN [Quiet(auth) EXCEPT !.isLoading = FALSE, !.flow = "idle"]
                   ELSE [Quiet(auth) EXCEPT !.refreshTokenRef = stored,
                                            !.flow = "restore_refresh"]
    /\ done' = NoDone
    /\ UNCHANGED <<client, reqs, pipeline_vars, page_vars>>

\* the session-restore effect after its refresh POST
RestoreResponds ==
    /\ auth.flow = "restore_refresh"
    /\ \E o \in {"ok", "not_ok", "network_error"}, tokens \in Issued(auth.localStorage[TOKEN_KEY]) :
          IF o = "ok"
          THEN /\ reqs["me"].pc = "idle"
               /\ LET a1 == applyTokens(Quiet(auth), tokens)
                  IN  /\ auth' = [a1 EXCEPT !.flow = "restore_me"]
                      /\ reqs' = [reqs EXCEPT !["me"] = StartedRequest(a1)]
          ELSE /\ auth' = [clearAuth(Quiet(auth)) EXCEPT !.isLoading = FALSE,
                                                         !.flow = "idle"]
               /\ UNCHANGED reqs
    /\ done' = NoDone
    /\ UNCHANGED <<client, pipeline_vars, page_vars>>

\* login(email, password) up to the await of authApi.login
Login ==
    /\ auth.flow = "idle"
    /\ auth' = [Quiet(auth) EXCEPT !.flow = "login_post"]
    /\ done' = NoDone
    /\ UNCHANGED <<client, reqs, pipeline_vars, page_vars>>

\* register(email, password, tenantName) up to the await of authApi.register
Register ==
    /\ auth.flow = "idle"
    /\ auth' = [Quiet(auth) EXCEPT !.flow = "register_post"]
    /\ done' = NoDone
    /\ UNCHANGED <<client, reqs, pipeline_vars, page_vars>>

\* authApi.login / authApi.register answered: applyTokens and fetchUser, or the
\* ApiError is thrown to the page
AuthApiResponds ==
    /\ auth.flow \in {"login_post", "register_post"}
    /\ \E ok \in BOOLEAN, tokens \in TokenResponses :
          IF ok
          THEN /\ reqs["me"].pc = "idle"
               /\ LET a1 == applyTokens(Quiet(auth), tokens)
                  IN  /\ auth' = [a1 EXCEPT !.flow = "login_me"]
                      /\ reqs' = [reqs EXCEPT !["me"] = StartedRequest(a1)]
          ELSE /\ auth' = [Quiet(auth) EXCEPT !.flow = "idle"]
               /\ UNCHANGED reqs
    /\ done' = NoDone
    /\ UNCHANGED <<client, pipeline_vars, page_vars>>

\* logout: handleLogout
Logout ==
    /\ auth.flow # "mount"
    /\ auth' = [handleLogout(auth) EXCEPT
                   !.event = [kind |-> "logout", was_authenticated |-> IsAuthenticated(auth)]]
    /\ done' = NoDone
    /\ UNCHANGED <<client, reqs, pipeline_vars, page_vars>>

\* the page is loaded again: memory is lost, localStorage stays
Reload ==
    /\ auth.flow # "mount"
    /\ auth' = [InitialAuth EXCEPT !.localStorage = auth.localStorage]
    /\ client' = InitialClient
    /\ reqs' = [r \in Requests |-> IdleRequest]
    /\ done' = NoDone
    /\ UNCHANGED <<pipeline_vars, page_vars>>

\* a component calls apiClient.get/post/put/delete
StartRequest(r) ==
    /\ r \in AppRequests
    /\ auth.flow # "mount"
    /\ reqs[r].pc = "idle"
    /\ reqs' = [reqs EXCEPT ![r] = StartedRequest(auth)]
    /\ auth' = Quiet(auth)
    /\ done' = NoDone
    /\ UNCHANGED <<client, pipeline_vars, page_vars>>

\* the first fetch of request r is answered: request() up to its next await,
\* tryRefresh and the start of executeRefresh included
FirstResponse(r) ==
    /\ reqs[r].pc = "fetch1"
    /\ \E resp \in Responses \cup {NetworkError} :
          LET q  == [reqs[r] EXCEPT !.first = resp,
                                    !.had_refresh_token = Truthy(auth.refreshTokenRef)]
              p  == NewPromise(client)
              rt == auth.refreshTokenRef
          IN  IF NeedsRefresh(resp.status, auth.refreshTokenRef)
              THEN /\ auth' = Quiet(auth)
                   /\ done' = NoDone
                   /\ IF TryRefreshJoins(client.refreshPromise)
                      THEN /\ reqs' = [reqs EXCEPT ![r] =
                                  [q EXCEPT !.pc = "refresh", !.role = "joiner",
                                            !.promise = client.refreshPromise,
                                            !.joined_pending =
                                                client.promises[client.refreshPromise].status
                                                    = "pending"]]
                           /\ UNCHANGED client
                      ELSE /\ reqs' = [reqs EXCEPT ![r] =
                                  [q EXCEPT !.pc = "refresh", !.role = "owner",
                                            !.promise = p,
                                            !.posts = IF Truthy(rt) THEN 1 ELSE 0]]
                           /\ client' = [client EXCEPT
                                  !.refreshPromise = p,
                                  !.promises[p] =
                                      IF ~Truthy(rt)
                                      THEN [FreePromise EXCEPT !.status = "fulfilled"]
                                      ELSE [FreePromise EXCEPT !.status = "pending",
                                                               !.presented = rt,
                                                               !.posts = 1]]
              ELSE Settle(r, q, resp, Quiet(auth), client)
    /\ UNCHANGED <<pipeline_vars, page_vars>>

\* the refresh POST of promise p is answered: the rest of executeRefresh
RefreshResponds(p) ==
    /\ client.promises[p].status = "pending"
    /\ \E o \in {"ok", "not_ok", "network_error"},
          tokens \in Issued(client.promises[p].presented) :
          LET cb == RefreshCallback(o = "ok")
          IN  /\ auth' = CASE cb = "onTokenRefreshed" -> applyTokens(Quiet(auth), tokens)
                           [] cb = "onAuthFailure" ->
                                [handleLogout(auth) EXCEPT
                                    !.event = [kind |-> "auth_failure",
                                               was_authenticated |-> IsAuthenticated(auth)]]
                           [] OTHER -> Quiet(auth)
              /\ client' = [client EXCEPT !.promises[p] =
                     [@ EXCEPT !.status = "fulfilled",
                               !.value = IF o = "ok" THEN tokens ELSE NoTokens,
                               !.notices = IF cb = "none" THEN @ ELSE Append(@, cb)]]
    /\ done' = NoDone
    /\ UNCHANGED <<reqs, pipeline_vars, page_vars>>

\* request r gets the outcome of the refresh it waited for: the finally of
\* tryRefresh for the request that started it, then the re-send or the error
RefreshContinues(r) ==
    /\ reqs[r].pc = "refresh"
    /\ client.promises[reqs[r].promise].status = "fulfilled"
    /\ LET p         == reqs[r].promise
           refreshed == client.promises[p].value
           q         == [reqs[r] EXCEPT !.promise = NoPromise, !.refreshed = refreshed,
                                        !.notices = client.promises[p].notices]
           rp1       == IF q.role = "owner" THEN NoPromise ELSE client.refreshPromise
           cl1       == [refreshPromise |-> rp1,
                         promises |-> Released(client.promises, p,
                                               [reqs EXCEPT ![r] = q], rp1)]
       IN  IF ShouldResend(refreshed)
           THEN /\ reqs' = [reqs EXCEPT ![r] =
                       [q EXCEPT !.pc = "fetch2",
                                 !.sent = Append(@, <<"Bearer", refreshed.access_token>>)]]
                /\ client' = cl1
                /\ auth' = Quiet(auth)
                /\ done' = NoDone
           ELSE Settle(r, q, q.first, Quiet(auth), cl1)
    /\ UNCHANGED <<pipeline_vars, page_vars>>

\* the re-sent fetch of request r is answered
RetryResponse(r) ==
    /\ reqs[r].pc = "fetch2"
    /\ \E resp \in Responses \cup {NetworkError} :
          Settle(r, reqs[r], resp, Quiet(auth), client)
    /\ UNCHANGED <<pipeline_vars, page_vars>>

FrontendNext ==
    \/ Mount
    \/ RestoreResponds
    \/ Login
    \/ Register
    \/ AuthApiResponds
    \/ Logout
    \/ Reload
    \/ \E r \in Requests : StartRequest(r)
    \/ \E r \in Requests : FirstResponse(r)
    \/ \E p \in PromiseIds : RefreshResponds(p)
    \/ \E r \in Requests : RefreshContinues(r)
    \/ \E r \in Requests : RetryResponse(r)

FrontendInit ==
    /\ PipelineIdle
    /\ FrontendIdle
    /\ PagesIdle

FrontendSpec == FrontendInit /\ [][FrontendNext]_vars

\* every fetch is answered or fails in the end, and a continuation that can
\* run does run
FairFrontendSpec ==
    /\ FrontendSpec
    /\ \A r \in Requests :
          /\ WF_vars(FirstResponse(r))
          /\ WF_vars(RefreshContinues(r))
          /\ WF_vars(RetryResponse(r))
    /\ \A p \in PromiseIds : WF_vars(RefreshResponds(p))

----------------------------------------------------------------------------
(* Page actions *)

\* handleSubmit up to the await of login / register
Submit ==
    /\ ~page.isSubmitting
    /\ page.submits < MaxSubmits
    /\ page' = IF validate(page.form)
               THEN [page EXCEPT !.apiError = "", !.errors = FieldErrors(page.form),
                                 !.isSubmitting = TRUE, !.submits = @ + 1,
                                 !.calls = Append(@, AuthCall(page.form))]
               ELSE [page EXCEPT !.apiError = "", !.errors = FieldErrors(page.form),
                                 !.submits = @ + 1]
    /\ UNCHANGED <<pipeline_vars, frontend_vars>>

\* login / register settles: the catch and the finally of handleSubmit
ActionSettles ==
    /\ page.isSubmitting
    /\ \E err \in {NoError, ApiError(401, "Invalid credentials"), TypeError} :
          page' = [page EXCEPT
                      !.isSubmitting = FALSE,
                      !.apiError = IF err = NoError THEN @
                                   ELSE IF err.name = "ApiError" THEN err.message
                                   ELSE "An unexpected error occurred"]
    /\ UNCHANGED <<pipeline_vars, frontend_vars>>

PagesNext ==
    \/ Submit
    \/ ActionSettles

PagesInit ==
    /\ PipelineIdle
    /\ FrontendIdle
    /\ \/ \E email \in Emails, password \in Passwords :
             page = NewPage(Form("login", email, password, << >>, << >>))
       \/ \E email \in FewEmails, password \in Passwords,
             confirmPassword \in Passwords, tenantName \in TenantNames :
             page = NewPage(Form("register", email, password, confirmPassword, tenantName))

PagesSpec == PagesInit /\ [][PagesNext]_vars

----------------------------------------------------------------------------
(* Derived facts used by the properties *)

Admitted == admission = "allow"
Finished == pc = "done"
Raised == last.status = "raise"
NoAgentRan == \A a \in Agents : runs[a] = 0
AgentsNeverRun(S) == \A a \in S : runs[a] = 0
CountOf(seq, r) == Cardinality({i \in 1..Len(seq) : seq[i] = r})

----------------------------------------------------------------------------
(* C1: in every reachable state of a run, for every configured             *)
(* max_rewrite_attempts >= 0, rewrite_attempts <= max_rewrite_attempts.     *)
C1_RewriteAttemptsBounded ==
    state.rewrite_attempts <= state.max_rewrite_attempts

(* C2: when every score is below the threshold and no stage fails, the     *)
(* rewriter and the scorer have each run max_rewrite_attempts + 1 times    *)
(* when gap_analysis is entered, with rewrite_attempts equal to            *)
(* max_rewrite_attempts, and the Result carries the last score.            *)
C2_ExactlyMaxRetries ==
    /\ (pc = "gap_analysis" /\ trace.all_below /\ trace.clean) =>
          /\ runs["resume_rewriter"] = state.max_rewrite_attempts + 1
          /\ runs["ats_scorer"] = state.max_rewrite_attempts + 1
          /\ state.rewrite_attempts = state.max_rewrite_attempts
    /\ (Finished /\ outcome = "Result" /\ trace.all_below /\ trace.clean) =>
          state.final_result.ats_score = state.ats_score

(* C3: when the first score reaches the threshold (and nothing fails),     *)
(* gap_analysis follows ats_scoring directly, the rewriter has run exactly *)
(* once, and rewrite_attempts is 0 at result_aggregation.                  *)
C3_FirstPassNoRetry ==
    (trace.first_pass = "pass" /\ trace.clean
        /\ pc \in {"gap_analysis", "result_aggregation"}) =>
        /\ runs["resume_rewriter"] = 1
        /\ runs["ats_scorer"] = 1
        /\ runs["gap_analyzer"] = (IF pc = "gap_analysis" THEN 0 ELSE 1)
        /\ (pc = "result_aggregation" => state.rewrite_attempts = 0)

(* C4: once a completed stage leaves the token count, the elapsed time or  *)
(* the model-invocation count above its ceiling, the controller is at      *)
(* result_aggregation or beyond, one budget-exceeded record is in errors,  *)
(* no further agent runs, and the run ends with a Result.                  *)
OverBudget ==
    \/ TokensSoFar(state) > cfg.max_total_tokens
    \/ elapsed_ms > cfg.max_pipeline_latency_ms
    \/ llm_calls > cfg.max_llm_calls

StageCompleted == last.status \in {"ok", "fallback"}

C5_QuotaDenied ==
    admission = "deny" =>
        /\ Finished /\ outcome = "QuotaExceededError"
        /\ states_constructed = 0
        /\ llm_calls = 0
        /\ NoAgentRan

C5_Witness == admission = "deny" /\ Finished /\ quota_checks = 1

(* C6: record_usage is called exactly once for a run that ends with a      *)
(* Result, only when the pipeline is over, never for a denied run;         *)
(* check_quota is called exactly once and before any pipeline work.        *)
C6_UsageRecordedOnce ==
    /\ usage_records = (IF outcome = "Result" THEN 1 ELSE 0)
    /\ (usage_records > 0 => Finished /\ Admitted)
    /\ (Finished /\ Admitted /\ ~Raised => outcome = "Result")
    /\ quota_checks = (IF pc = "start" THEN 0 ELSE 1)
    /\ (quota_checks = 0 => NoAgentRan /\ states_constructed = 0 /\ llm_calls = 0)

C6_Witness ==
    /\ Finished /\ outcome = "Result" /\ usage_records = 1
    /\ Len(state.final_result.errors) > 0

(* C7: a job description shorter than the minimum length gives the caller  *)
(* ValidationError, with no model invocation and no later stage run.       *)
C7_ShortJdValidationError ==
    (Finished /\ Admitted /\ jd_len < MinJdLength) =>
        /\ outcome = "ValidationError"
        /\ llm_calls = 0
        /\ AgentsNeverRun(Agents \ {"jd_analyzer"})

(* C8: a first validate rejection re-invokes the stage exactly once; after *)
(* a second rejection the retriever, rewriter, scorer and gap analyzer     *)
(* store their fallback, record one non-fatal error and the pipeline goes  *)
(* on, while the JD analyzer aborts the run.                               *)
C8_RepromptOnceThenFallback ==
    /\ last.n <= 2
    /\ last.o1 = "invalid" =>
          /\ last.n = 2
          /\ last.fin = "invalid" =>
                IF last.agent = "jd_analyzer"
                THEN /\ Finished /\ outcome # "Result"
                     /\ AgentsNeverRun(Agents \ {"jd_analyzer"})
                ELSE /\ last.status = "fallback"
                     /\ CountOf(state.errors,
                                ErrorRecord(last.agent, "SchemaValidationError")) >= 1
                     /\ outcome \in {"none", "Result"}

C10_OutcomeKinds ==
    /\ outcome \in {"none", "Result", "ValidationError", "QuotaExceededError",
                    "AgentExecutionError"}
    /\ (Finished <=> outcome # "none")
    /\ (outcome = "Result" => ~Raised /\ cause = "none")
    /\ (Raised => outcome \in {"ValidationError", "AgentExecutionError"})

C10_Witness ==
    /\ Finished /\ outcome = "AgentExecutionError"
    /\ cause = "SchemaValidationError" /\ last.agent = "jd_analyzer"

(* C11: each of the five stored scores (overall, keywords, skills,        *)
(* experience, formatting) is within [0.0, 1.0] in every state, whatever   *)
(* the backend returned, and so is the fallback value 0.5.                 *)
C11_ScoresInRange ==
    /\ state.ats_score \in 0..100
    /\ \A k \in Categories : state.score_breakdown[k] \in 0..100
    /\ state.final_result.ats_score \in 0..100
    /\ DefaultScore \in 0..100
    /\ (last.agent = "ats_scorer" /\ last.status = "fallback") =>
          /\ state.ats_score = DefaultScore
          /\ state.score_breakdown = DefaultBreakdown

C11_Witness ==
    /\ last.agent = "ats_scorer" /\ last.status = "ok"
    /\ state.ats_score = 100
    /\ state.score_breakdown["skills"] = 100
    /\ state.score_breakdown["keywords"] = 0

(* C12: the nodes run one at a time along the edges jd_analysis ->         *)
(* resume_retrieval -> bullet_rewriting -> ats_scoring -> (bullet_rewriting *)
(* | gap_analysis) -> result_aggregation -> END and along no other edge    *)
(* (an abort ends the run); the JD analyzer, the retriever and the gap     *)
(* analyzer run at most once, and gap_analysis is not entered before a     *)
(* score exists.                                                           *)
RunAborted == pc = "done" /\ outcome # "Result"

EnteredOnce ==
    /\ runs["jd_analyzer"] <= 1
    /\ runs["rag_retriever"] <= 1
    /\ runs["gap_analyzer"] <= 1
    /\ (pc = "gap_analysis" => runs["gap_analyzer"] = 0 /\ runs["ats_scorer"] >= 1)
    /\ (runs["gap_analyzer"] > 0 => runs["ats_scorer"] >= 1)

C13_RetriesThenStagePolicy ==
    /\ last.attempts <= 1 + MaxRetries
    /\ (last.o1 = "crash" => last.n = 1 /\ last.status = "raise")
    /\ (last.fin = "timeout" /\ last.agent \in LlmAgents) =>
          /\ last.attempts = 1 + MaxRetries
          /\ IF last.agent = "jd_analyzer"
             THEN Finished /\ outcome = "AgentExecutionError"
             ELSE /\ last.status = "fallback"
                  /\ CountOf(state.errors,
                             ErrorRecord(last.agent, "TransientBackendError")) >= 1
                  /\ outcome \in {"none", "Result"}

----------------------------------------------------------------------------
(* Derived facts about ApiClient calls *)

CallSettled == done.req # "none"
Got401WithRefreshToken == CallSettled /\ done.first.status = 401 /\ done.had_refresh_token
RefreshSucceeded == done.role # "none" /\ done.refreshed # NoTokens
RefreshFailed == done.role # "none" /\ done.refreshed = NoTokens
Bearer(token) == <<"Bearer", token>>
PendingPromises == {p \in PromiseIds : client.promises[p].status = "pending"}

(* C14: a call whose first response is 401 while a refresh token is there, *)
(* and whose refresh succeeds, has seen onTokenRefreshed called, has sent   *)
(* the request exactly once more with the new access token and resolves     *)
(* with the body of that second response; the call that posted the refresh *)
(* has made 3 fetches.                                                      *)
C14_RefreshThenResend ==
    (Got401WithRefreshToken /\ RefreshSucceeded /\ done.final # NetworkError) =>
        /\ done.notices = << "onTokenRefreshed" >>
        /\ Len(done.sent) = 2
        /\ done.sent[2] = Bearer(done.refreshed.access_token)
        /\ (done.role = "owner" => done.posts = 1 /\ Len(done.sent) + done.posts = 3)
        /\ done.result = "resolved"
        /\ done.value \in {"data", "undefined"}

(* C14, amended: as above, except that the call is settled by the second   *)
(* response whatever it is: it resolves when that response is ok and       *)
(* rejects otherwise, and nothing more is sent.                            *)
C14_RefreshThenResendSettles ==
    /\ (Got401WithRefreshToken => done.role # "none")
    /\ (Got401WithRefreshToken /\ RefreshSucceeded) =>
          /\ done.notices = << "onTokenRefreshed" >>
          /\ Len(done.sent) = 2
          /\ done.sent[2] = Bearer(done.refreshed.access_token)
          /\ (done.role = "owner" => done.posts = 1 /\ Len(done.sent) + done.posts = 3)
          /\ (done.role = "joiner" => done.posts = 0)
          /\ (done.result = "resolved") = Ok(done.final.status)
          /\ (done.result = "rejected" /\ done.final # NetworkError =>
                 done.error.name = "ApiError" /\ done.error.status = done.final.status)

C14_Witness ==
    /\ Got401WithRefreshToken /\ RefreshSucceeded
    /\ done.role = "owner" /\ done.posts = 1
    /\ done.sent = << Bearer(done.token0), Bearer(done.refreshed.access_token) >>
    /\ done.token0 # done.refreshed.access_token
    /\ done.result = "resolved" /\ done.value = "data"

(* C15: at most one refresh POST is in flight at any time; a call that     *)
(* gets its 401 while one is in flight waits for that one and posts        *)
(* nothing; each refresh calls onTokenRefreshed or onAuthFailure once.     *)
C15_SingleRefreshInFlight ==
    /\ Cardinality(PendingPromises) <= 1
    /\ \A p \in PromiseIds :
          /\ client.promises[p].posts <= 1
          /\ (client.promises[p].status = "pending" =>
                 /\ client.refreshPromise = p
                 /\ client.promises[p].posts = 1
                 /\ client.promises[p].notices = << >>)
          /\ (client.promises[p].status = "fulfilled" /\ client.promises[p].posts = 1 =>
                 Len(client.promises[p].notices) = 1)
          /\ Cardinality({r \in Requests : reqs[r].promise = p /\ reqs[r].role = "owner"}) <= 1
    /\ \A r \in Requests :
          (reqs[r].pc = "refresh" /\ reqs[r].joined_pending) =>
              /\ reqs[r].role = "joiner" /\ reqs[r].posts = 0
              /\ client.promises[reqs[r].promise].status \in {"pending", "fulfilled"}
              /\ client.promises[reqs[r].promise].posts = 1
    /\ (CallSettled /\ done.joined_pending) =>
          /\ done.posts = 0
          /\ Len(done.notices) = 1
          /\ (done.refreshed = NoTokens) = (done.notices = << "onAuthFailure" >>)

C15_Witness ==
    \E r1, r2 \in Requests :
        /\ reqs[r1].pc = "refresh" /\ reqs[r1].role = "owner"
        /\ reqs[r2].pc = "refresh" /\ reqs[r2].role = "joiner" /\ reqs[r2].joined_pending
        /\ reqs[r1].promise = reqs[r2].promise
        /\ client.promises[reqs[r1].promise].status = "pending"

(* C16: when the refresh fails, onAuthFailure has been called and          *)
(* onTokenRefreshed has not, the request is not sent again, and the call   *)
(* rejects with an ApiError carrying the status of the first response, 401. *)
C16_RefreshFailureRejects ==
    (Got401WithRefreshToken /\ RefreshFailed) =>
        /\ done.notices = << "onAuthFailure" >>
        /\ Len(done.sent) = 1
        /\ done.final = done.first
        /\ done.result = "rejected"
        /\ done.error.name = "ApiError"
        /\ done.error.status = 401

C16_Witness ==
    /\ Got401WithRefreshToken /\ RefreshFailed
    /\ done.role = "owner" /\ done.posts = 1
    /\ done.result = "rejected" /\ done.error.status = 401
    /\ auth.route = "/login" /\ auth.refreshTokenRef = Null

(* C17: the first fetch of a call carries Authorization: Bearer <t> for    *)
(* the access token t read when the call started, and no Authorization     *)
(* header when that was null; the re-send carries the refreshed access     *)
(* token.                                                                  *)
HeadersAsExpected(q) ==
    /\ Len(q.sent) <= 2
    /\ (Len(q.sent) >= 1 =>
           q.sent[1] = IF q.token0 = Null THEN NoHeader ELSE Bearer(q.token0))
    /\ (Len(q.sent) = 2 => q.sent[2] = Bearer(q.refreshed.access_token))

C17_AuthorizationHeader ==
    /\ \A r \in Requests :
          /\ HeadersAsExpected(reqs[r])
          /\ (reqs[r].pc # "idle" => Len(reqs[r].sent) >= 1)
    /\ HeadersAsExpected(done)
    /\ (CallSettled => Len(done.sent) >= 1)

C17_Witness ==
    /\ CallSettled
    /\ done.token0 = Null
    /\ Len(done.sent) = 2
    /\ done.sent[1] = NoHeader
    /\ done.sent[2] \in {Bearer(t) : t \in AccessTokens}

(* C18: a call whose final response is not ok rejects with an ApiError     *)
(* whose status is the response status and whose message is the body's     *)
(* detail, else the body's message, else 'Request failed: <status>'; it    *)
(* never resolves; a 204 response resolves with undefined.                 *)
C18_NonOkRejects ==
    CallSettled =>
        /\ (done.final # NetworkError /\ ~Ok(done.final.status)) =>
              /\ done.result = "rejected"
              /\ done.value = "none"
              /\ done.error.name = "ApiError"
              /\ done.error.status = done.final.status
              /\ done.error.message =
                    IF done.final.body.json /\ done.final.body.detail # Absent
                    THEN done.final.body.detail
                    ELSE IF done.final.body.json /\ done.final.body.message # Absent
                    THEN done.final.body.message
                    ELSE "Request failed: " \o ToString(done.final.status)
        /\ (done.final.status = 204 => done.result = "resolved" /\ done.value = "undefined")
        /\ (done.result = "resolved" => Ok(done.final.status))

C18_Witness ==
    /\ CallSettled
    /\ done.final.status = 404
    /\ done.final.body.json /\ done.final.body.detail = Absent
    /\ done.result = "rejected"
    /\ done.error = ApiError(404, "Bad request")

(* C19: localStorage never holds the access token or the refresh token.    *)
C19_NoTokenInLocalStorage ==
    \A k \in DOMAIN auth.localStorage :
        auth.localStorage[k] \notin (AccessTokens \cup RefreshTokens)

(* C20: right after logout, and right after the ApiClient has reported     *)
(* onAuthFailure, the access token, the refresh token in memory, the       *)
(* stored refresh token and the user are cleared, isAuthenticated is       *)
(* false and the route is /login.                                          *)
C20_LogoutClearsAll ==
    auth.event.kind \in {"logout", "auth_failure"} =>
        /\ auth.accessTokenRef = Null
        /\ auth.refreshTokenRef = Null
        /\ auth.localStorage[TOKEN_KEY] = Null
        /\ auth.user = Null
        /\ ~IsAuthenticated(auth)
        /\ auth.route = "/login"

C20_Witness ==
    /\ auth.event.kind = "auth_failure"
    /\ auth.event.was_authenticated
    /\ auth.route = "/login"

----------------------------------------------------------------------------
(* Derived facts about the sign-in pages *)

EmailAccepted == trim(page.form.email) # << >> /\ EmailPattern(page.form.email)
PasswordAccepted ==
    /\ page.form.password # << >>
    /\ (page.form.kind = "register" => Len(page.form.password) >= 8)
ConfirmationAccepted ==
    page.form.kind = "register" => page.form.password = page.form.confirmPassword
TenantNameAccepted ==
    page.form.kind = "register" => Len(trim(page.form.tenantName)) >= 2
FormAccepted ==
    EmailAccepted /\ PasswordAccepted /\ ConfirmationAccepted /\ TenantNameAccepted

(* C21: a page calls login(email, password) or register(email, password,   *)
(* trimmed organization name) once per submit, with the values entered,    *)
(* when the email is non-blank and matches the pattern, the password is    *)
(* non-empty and, on RegisterPage, has 8 characters or more and equals the *)
(* confirmation and the trimmed organization name has 2 characters or      *)
(* more; otherwise it makes no call and every failing field has its error. *)
C21_ValidatedSubmit ==
    /\ Len(page.calls) = (IF FormAccepted THEN page.submits ELSE 0)
    /\ \A i \in 1..Len(page.calls) :
          page.calls[i] =
              IF page.form.kind = "login"
              THEN <<"login", page.form.email, page.form.password>>
              ELSE <<"register", page.form.email, page.form.password,
                     trim(page.form.tenantName)>>
    /\ page.submits > 0 =>
          /\ (page.errors.email # Absent) = ~EmailAccepted
          /\ (page.errors.password # Absent) = ~PasswordAccepted
          /\ (page.errors.confirmPassword # Absent) = ~ConfirmationAccepted
          /\ (page.errors.tenantName # Absent) = ~TenantNameAccepted

C21_Witness ==
    /\ page.form.kind = "register"
    /\ page.submits = 1
    /\ Len(page.calls) = 1
    /\ page.form.tenantName # trim(page.form.tenantName)
    /\ page.calls[1][4] = <<"o", "o">>

----------------------------------------------------------------------------
(* C22: when the scorer's re-prompt is rejected again, or its retry times  *)
(* out again, the default score 0.5 is stored for the overall score and    *)
(* the four categories, one non-fatal error is recorded, and (no budget    *)
(* guardrail being exceeded) gap_analysis is the next node.                *)
ScorerGaveUp ==
    /\ last.agent = "ats_scorer"
    /\ last.o1 \in {"invalid", "timeout"}
    /\ last.fin \in {"invalid", "timeout"}

C22_ScorerFallbackProceeds ==
    ScorerGaveUp =>
        /\ last.n = 2
        /\ last.status = "fallback"
        /\ state.ats_score = DefaultScore
        /\ state.score_breakdown = DefaultBreakdown
        /\ CountOf(state.errors, ErrorRecord("ats_scorer", ErrorKind(last.fin))) >= 1
        /\ ErrorRecord("ats_scorer", ErrorKind(last.fin)).recoverable
        /\ (~last.breach => pc = "gap_analysis")

----------------------------------------------------------------------------
(* C23: each output field is written by one node only (jd_analysis by the  *)
(* JD analyzer, relevant_chunks by the retriever, optimized_bullets by the *)
(* rewriter, ats_score and score_breakdown by the scorer, gap_report by    *)
(* the gap analyzer, final_result and total_tokens_used by the aggregator, *)
(* token_usage[a] by agent a); the inputs never change; and                *)
(* rewrite_attempts changes only when the rewriter runs as a retry, by +1, *)
(* once for each retry.                                                    *)
NodeOf(agent) ==
    CASE agent = "jd_analyzer"     -> "jd_analysis"
      [] agent = "rag_retriever"   -> "resume_retrieval"
      [] agent = "resume_rewriter" -> "bullet_rewriting"
      [] agent = "ats_scorer"      -> "ats_scoring"
      [] agent = "gap_analyzer"    -> "gap_analysis"

OutputsHaveOneWriter ==
    /\ state'.jd_analysis # state.jd_analysis => pc = "jd_analysis"
    /\ state'.relevant_chunks # state.relevant_chunks => pc = "resume_retrieval"
    /\ state'.optimized_bullets # state.optimized_bullets => pc = "bullet_rewriting"
    /\ state'.ats_score # state.ats_score => pc = "ats_scoring"
    /\ state'.score_breakdown # state.score_breakdown => pc = "ats_scoring"
    /\ state'.gap_report # state.gap_report => pc = "gap_analysis"
    /\ state'.final_result # state.final_result => pc = "result_aggregation"
    /\ state'.total_tokens_used # state.total_tokens_used => pc = "result_aggregation"
    /\ \A a \in Agents :
          state'.token_usage[a] # state.token_usage[a] => pc = NodeOf(a)

InputsStay ==
    /\ jd_len' = jd_len
    /\ cfg' = cfg
    /\ state'.score_threshold = state.score_threshold
    /\ state'.max_rewrite_attempts = state.max_rewrite_attempts

RewriterRetries == pc = "bullet_rewriting" /\ runs["resume_rewriter"] >= 1

C23_SingleWriter ==
    [][ /\ OutputsHaveOneWriter
        /\ InputsStay
        /\ (state'.rewrite_attempts # state.rewrite_attempts =>
               /\ RewriterRetries
               /\ state'.rewrite_attempts = state.rewrite_attempts + 1)
        /\ (RewriterRetries /\ ~RunAborted' =>
               state'.rewrite_attempts = state.rewrite_attempts + 1) ]_vars

----------------------------------------------------------------------------
(* C24: under the default configuration (max_rewrite_attempts 2,           *)
(* max_llm_calls 6), with no failed backend call and every score below     *)
(* the threshold, gap_analysis is entered after both retries (three        *)
(* rewriter and three scorer executions), and the model-invocation count   *)
(* never exceeds its ceiling.                                              *)
DefaultPolicy ==
    /\ cfg.max_rewrite_attempts = DefaultMaxRewriteAttempts
    /\ cfg.max_llm_calls = DefaultMaxLlmCalls
    /\ faults = 0

EntersGapAllBelow == DefaultPolicy /\ trace.all_below /\ pc = "gap_analysis"

----------------------------------------------------------------------------
(* C25: an admitted run takes the retry edge at most max_rewrite_attempts  *)
(* times, executes at most 3 + 2 * (max_rewrite_attempts + 1) stages, each *)
(* with at most one re-prompt, and reaches result_aggregation or aborts.   *)
StageExecutions == SumOver(runs, Agents)

LoopTraversals ==
    IF runs["resume_rewriter"] = 0 THEN 0
    ELSE runs["resume_rewriter"] - 1 + (IF pc = "bullet_rewriting" THEN 1 ELSE 0)

PastTheStages == pc \in {"result_aggregation", "END", "done"}

C25_RunsTerminate ==
    /\ [](/\ LoopTraversals <= cfg.max_rewrite_attempts
          /\ StageExecutions <= 3 + 2 * (cfg.max_rewrite_attempts + 1)
          /\ runs["ats_scorer"] <= runs["resume_rewriter"]
          /\ last.n <= 2)
    /\ (Admitted ~> PastTheStages)

C25_Witness ==
    /\ Admitted /\ pc = "result_aggregation"
    /\ cfg.max_rewrite_attempts = 2
    /\ LoopTraversals = 1
    /\ StageExecutions = 7
    /\ last.n = 2

----------------------------------------------------------------------------
(* C26: once result_aggregator_node has run, the total_tokens_used inside  *)
(* final_result equals the state's total_tokens_used, and both equal the   *)
(* sum over token_usage.                                                   *)
Aggregated == pc = "END" \/ (Finished /\ outcome = "Result")

C26_TotalTokensAgree ==
    Aggregated =>
        /\ state.total_tokens_used = SumOver(state.token_usage, Agents)
        /\ state.final_result.total_tokens_used = state.total_tokens_used

----------------------------------------------------------------------------
(* C27: a call fetches its URL at most twice and waits for at most one     *)
(* refresh: its position only moves forward (first fetch, wait, re-send,   *)
(* settled) and a call that waits, waits for a refresh that is in flight   *)
(* or has ended; a re-send answered 401 rejects with ApiError(401) and the *)
(* step that settles a re-sent call starts no refresh.                     *)
CallSteps ==
    {<<"idle", "fetch1">>, <<"fetch1", "refresh">>, <<"fetch1", "idle">>,
     <<"refresh", "fetch2">>, <<"refresh", "idle">>, <<"fetch2", "idle">>}

InProgress(r) == reqs[r].pc # "idle"

C27_NoRefreshLoop ==
    /\ [](\A r \in Requests :
             /\ Len(reqs[r].sent) <= 2
             /\ reqs[r].posts <= 1
             /\ (Len(reqs[r].sent) = 2 <=> reqs[r].pc = "fetch2")
             /\ (reqs[r].pc = "fetch2" => reqs[r].role # "none" /\ reqs[r].promise = NoPromise)
             /\ (reqs[r].pc = "refresh" =>
                    /\ reqs[r].promise # NoPromise
                    /\ client.promises[reqs[r].promise].status \in {"pending", "fulfilled"}))
    /\ [](CallSettled =>
             /\ Len(done.sent) <= 2 /\ done.posts <= 1
             /\ (Len(done.sent) = 2 /\ done.final.status = 401 =>
                    /\ done.result = "rejected"
                    /\ done.error.name = "ApiError" /\ done.error.status = 401))
    /\ [][\A r \in Requests :
             /\ (reqs'[r].pc # reqs[r].pc => <<reqs[r].pc, reqs'[r].pc>> \in CallSteps)
             /\ (reqs[r].pc = "fetch2" /\ done'.req = r => client' = client)]_vars

\* with every fetch answered in the end, every call that has started settles
CallsSettle == \A r \in Requests : InProgress(r) ~> ~InProgress(r)

C27_Witness ==
    /\ CallSettled
    /\ done.first.status = 401 /\ done.final.status = 401
    /\ Len(done.sent) = 2 /\ done.role = "owner" /\ done.posts = 1
    /\ done.result = "rejected" /\ done.error.status = 401
    /\ client.refreshPromise = NoPromise /\ PendingPromises = {}

----------------------------------------------------------------------------
(* C28: a call whose first response is 401 while the refresh token is null *)
(* starts no refresh and waits for none, posts nothing to the refresh      *)
(* endpoint, has neither onTokenRefreshed nor onAuthFailure called, is not *)
(* sent again, and rejects with ApiError(401); the step leaves the client  *)
(* and the tokens as they were.                                            *)
Got401WithoutRefreshToken ==
    CallSettled /\ done.first.status = 401 /\ ~done.had_refresh_token

C28_NoRefreshWithoutToken ==
    /\ [](Got401WithoutRefreshToken =>
             /\ done.role = "none"
             /\ done.posts = 0
             /\ done.notices = << >>
             /\ Len(done.sent) = 1
             /\ done.final = done.first
             /\ done.result = "rejected"
             /\ done.error.name = "ApiError"
             /\ done.error.status = 401)
    /\ [][Got401WithoutRefreshToken' =>
             /\ client' = client
             /\ auth'.accessTokenRef = auth.accessTokenRef
             /\ auth'.refreshTokenRef = auth.refreshTokenRef
             /\ auth'.localStorage = auth.localStorage
             /\ auth'.event = NoEvent]_vars

C28_Witness ==
    /\ Got401WithoutRefreshToken
    /\ done.token0 # Null
    /\ done.sent = << Bearer(done.token0) >>
    /\ done.error = ApiError(401, "Request failed: 401")
    /\ auth.refreshTokenRef = Null

----------------------------------------------------------------------------
(* C29: in every state of AuthProvider, a non-null user (isAuthenticated)  *)
(* comes with a non-null access token and a non-null refresh token.        *)
C29_AuthenticatedHasTokens ==
    IsAuthenticated(auth) =>
        /\ auth.accessTokenRef # Null
        /\ auth.refreshTokenRef # Null

====
